---- MODULE Spec2Model ----
(***************************************************************************)
(* Election ledger of AIE_Class_Elections/app.py: the SQLite store, the    *)
(* core operations on it, and the Streamlit handlers that call them.       *)
(*                                                                         *)
(* Concurrency model.  Every browser session runs the script in its own    *)
(* thread; every core operation opens its own connection (get_conn).  The  *)
(* connections use the sqlite3 module's default transaction handling: a    *)
(* SELECT runs outside a transaction and sees the last committed state; the *)
(* first INSERT/UPDATE/DELETE of a connection opens a transaction and takes *)
(* the database's single write lock, which is held until commit, rollback  *)
(* or close.  The steps of the operations are therefore the SQL statements, *)
(* and a write transaction works on a private copy (txdb) of the committed *)
(* database (db) that replaces it at commit.                               *)
(*                                                                         *)
(* Strings that the code inspects (student IDs, candidate names) are tuples *)
(* of one-character strings, so that strip, upper, startswith, slicing,    *)
(* isdigit and int are computed character by character.                   *)
(***************************************************************************)
EXTENDS Integers, Sequences, FiniteSets, TLC

\* ------------------------------------------------------------ configuration

STUDENT_PASSWORD == "AIE_ELECTIONS"
ADMIN_PASSWORD == "admin@aie"

CATEGORIES == <<"Hostler Boy", "Dayscholar Boy", "Hostler Girl", "Dayscholar Girl">>

CategorySet == {CATEGORIES[i] : i \in 1..Len(CATEGORIES)}

\* ------------------------------------------------------------------ bounds

\* datetime.now() is read at most MaxClock times
MaxClock == 3
\* the admin_logs table holds at most MaxLog rows
MaxLog == 6
\* the candidates table's AUTOINCREMENT id goes up to MaxCandidateId
MaxCandidateId == 5

\* the browser sessions
Sessions == {"s1", "s2"}

\* Who sits at the sessions: students only, the admin and a student, or two
\* admins.  A user stays on the page chosen in the sidebar.
Populations ==
    {[s \in Sessions |-> "Student Voting"],
     [s \in Sessions |-> IF s = "s1" THEN "Admin Panel" ELSE "Student Voting"],
     [s \in Sessions |-> "Admin Panel"]}

\* what the users type and pick
S_AIE24201 == <<"A", "I", "E", "2", "4", "2", "0", "1">>
S_aie24201 == <<"a", "i", "e", "2", "4", "2", "0", "1">>
S_AIE24200 == <<"A", "I", "E", "2", "4", "2", "0", "0">>
S_AIE24261 == <<"A", "I", "E", "2", "4", "2", "6", "1">>

\* What each browser's user types into the student-ID box: everyone may type
\* the well-formed ID, an out-of-range one or nothing; the user of the first
\* browser may also type the same ID in lower case.
EnteredIds(s) ==
    {S_AIE24201, S_AIE24200, << >>} \cup (IF s = "s1" THEN {S_aie24201} ELSE {})
EnteredPasswords == {STUDENT_PASSWORD, "guess"}
EnteredNames == {<<"A">>, <<" ", "A">>, <<" ">>}
PickedCategories == {CATEGORIES[1]}

\* ----------------------------------------------------------------- strings

Whitespace == {" "}
Digits == {"0", "1", "2", "3", "4", "5", "6", "7", "8", "9"}

UpperChar(c) ==
    CASE c = "a" -> "A"
      [] c = "i" -> "I"
      [] c = "e" -> "E"
      [] OTHER -> c

\* str.upper()
Upper(str) == [k \in 1..Len(str) |-> UpperChar(str[k])]

RECURSIVE LStrip(_)
LStrip(str) ==
    IF str # << >> /\ Head(str) \in Whitespace THEN LStrip(Tail(str)) ELSE str

RECURSIVE RStrip(_)
RStrip(str) ==
    IF str # << >> /\ str[Len(str)] \in Whitespace
    THEN RStrip(SubSeq(str, 1, Len(str) - 1))
    ELSE str

\* str.strip()
Strip(str) == RStrip(LStrip(str))

\* str.startswith(prefix)
StartsWith(str, prefix) ==
    /\ Len(str) >= Len(prefix)
    /\ SubSeq(str, 1, Len(prefix)) = prefix

\* str[-3:]
Last3(str) == SubSeq(str, IF Len(str) > 3 THEN Len(str) - 2 ELSE 1, Len(str))

\* str.isdigit()
IsDigit(str) == str # << >> /\ \A k \in 1..Len(str) : str[k] \in Digits

DigitVal(c) == CHOOSE n \in 0..9 : ToString(n) = c

RECURSIVE ToInt(_)
\* int(str) of a string of decimal digits
ToInt(str) ==
    IF str = << >> THEN 0
    ELSE 10 * ToInt(SubSeq(str, 1, Len(str) - 1)) + DigitVal(str[Len(str)])

valid_student_id(sid0) ==
    LET sid == Upper(Strip(sid0))
    IN  /\ StartsWith(sid, <<"A", "I", "E", "2", "4">>)
        /\ IsDigit(Last3(sid))
        /\ 201 <= ToInt(Last3(sid))
        /\ ToInt(Last3(sid)) <= 261

\* ---------------------------------------------------------------- database

\* SQL NULL, and a non-null value v of a nullable column
NULL == {}
Some(v) == {v}

\* The five tables after init_db on a new file.  A students row is
\* student_id |-> [has_voted, vote_timestamp] (student_id is the primary
\* key); vote_seq and cand_seq are the AUTOINCREMENT counters of votes and
\* candidates.  The columns filled by CURRENT_TIMESTAMP defaults
\* (candidates.added_at, admin_logs.timestamp) are only ever displayed and are
\* left out.
init_db ==
    [students   |-> [x \in {} |-> [has_voted |-> 0, vote_timestamp |-> NULL]],
     votes      |-> {},
     vote_seq   |-> 0,
     candidates |-> {},
     cand_seq   |-> 0,
     control    |-> {[id |-> 1, published |-> 0,
                      published_at |-> NULL, publish_admin |-> NULL]},
     admin_logs |-> << >>]

\* A guard that also turns the student away once the results are published
VotedOrClosed(d, sid) ==
    \/ \E r \in d.control : r.id = 1 /\ r.published = 1
    \/ sid \in DOMAIN d.students /\ d.students[sid].has_voted = 1

\* A has_voted read that finds nobody marked
NoGuard(d, sid) == FALSE

\* SELECT has_voted FROM students WHERE student_id=?  ...  row and row[0] == 1
already_voted(d, sid) ==
    /\ sid \in DOMAIN d.students
    /\ d.students[sid].has_voted = 1

\* INSERT INTO votes (student_id, category, candidate, voted_at)
InsertVote(d, sid, cat, cand, ts) ==
    [d EXCEPT !.votes = @ \cup {[id |-> d.vote_seq + 1, student_id |-> sid,
                                 category |-> cat, candidate |-> cand,
                                 voted_at |-> ts]},
              !.vote_seq = @ + 1]

\* An INSERT OR REPLACE INTO students that leaves the student unmarked
UpsertUnmarked(d, sid, ts) ==
    [d EXCEPT !.students =
        [x \in DOMAIN @ \cup {sid} |->
            IF x = sid THEN [has_voted |-> 0, vote_timestamp |-> NULL]
            ELSE @[x]]]

\* A REPLACE that leaves the new row as the table's only row
UpsertAlone(d, sid, ts) ==
    [d EXCEPT !.students =
        [x \in {sid} |-> [has_voted |-> 1, vote_timestamp |-> Some(ts)]]]

\* A marking of the student that also takes the publication back
UpsertUnpublishing(d, sid, ts) ==
    [d EXCEPT !.students =
                  [x \in DOMAIN @ \cup {sid} |->
                      IF x = sid
                      THEN [has_voted |-> 1, vote_timestamp |-> Some(ts)]
                      ELSE @[x]],
              !.control = {[r EXCEPT !.published = 0] : r \in @}]

\* INSERT OR REPLACE INTO students (student_id, has_voted, vote_timestamp)
\* VALUES (?, 1, ?)
UpsertStudent(d, sid, ts) ==
    [d EXCEPT !.students =
        [x \in DOMAIN @ \cup {sid} |->
            IF x = sid THEN [has_voted |-> 1, vote_timestamp |-> Some(ts)]
            ELSE @[x]]]

\* A candidates table without its UNIQUE(name, category)
NoUnique(d, name, cat) == FALSE

\* UNIQUE(name, category) of the candidates table: would the row violate it
CandidateExists(d, name, cat) ==
    \E r \in d.candidates : r.name = name /\ r.category = cat

\* INSERT INTO candidates (name, category) VALUES (?, ?)
InsertCandidate(d, name, cat) ==
    [d EXCEPT !.candidates = @ \cup {[id |-> d.cand_seq + 1, name |-> name,
                                      category |-> cat]},
              !.cand_seq = @ + 1]

\* SELECT COUNT(*) FROM votes WHERE candidate = ? AND category = ?
VoteCount(d, name, cat) ==
    Cardinality({v \in d.votes : v.candidate = name /\ v.category = cat})

\* DELETE FROM candidates WHERE name = ? AND category = ?
DeleteCandidateRows(d, name, cat) ==
    [d EXCEPT !.candidates = {r \in @ : ~(r.name = name /\ r.category = cat)}]

\* cur.rowcount of that DELETE
DeleteRowCount(d, name, cat) ==
    Cardinality({r \in d.candidates : r.name = name /\ r.category = cat})

\* SELECT name FROM candidates WHERE category=?
get_candidates(d, cat) == {r.name : r \in {c \in d.candidates : c.category = cat}}

\* json.dumps(details) of the two shapes of details the operations log
CandidateDetails(name, cat) ==
    [name |-> Some(name), category |-> Some(cat), timestamp |-> NULL]
TimestampDetails(ts) ==
    [name |-> NULL, category |-> NULL, timestamp |-> Some(ts)]

\* INSERT INTO admin_logs (admin_user, action, details) VALUES ("Admin", ?, ?)
InsertLog(d, action, details) ==
    [d EXCEPT !.admin_logs =
        Append(@, [admin_user |-> "Admin", action |-> action, details |-> details])]

\* SELECT COUNT(*) FROM control WHERE id = 1
ControlCount(d) == Cardinality({r \in d.control : r.id = 1})

\* INSERT INTO control (id, published) VALUES (1, 0), when the count was 0
EnsureControl(d, count) ==
    IF count = 0
    THEN [d EXCEPT !.control = @ \cup {[id |-> 1, published |-> 0,
                                        published_at |-> NULL,
                                        publish_admin |-> NULL]}]
    ELSE d

\* An UPDATE that leaves a published row alone (WHERE id = 1 AND published = 0)
UpdateIfUnpublished(d, ts, admin) ==
    [d EXCEPT !.control =
        {IF r.id = 1 /\ r.published = 0
         THEN [r EXCEPT !.published = 1, !.published_at = Some(ts),
                        !.publish_admin = Some(admin)]
         ELSE r : r \in @}]

\* A publication that also deletes the votes
UpdateAndDeleteVotes(d, ts, admin) ==
    [d EXCEPT !.votes = {},
              !.control =
                  {IF r.id = 1
                   THEN [r EXCEPT !.published = 1, !.published_at = Some(ts),
                                  !.publish_admin = Some(admin)]
                   ELSE r : r \in @}]

\* An UPDATE that sets published = 1 and nothing else
UpdateFlagOnly(d, ts, admin) ==
    [d EXCEPT !.control =
        {IF r.id = 1 THEN [r EXCEPT !.published = 1] ELSE r : r \in @}]

\* UPDATE control SET published = 1, published_at = ?, publish_admin = ?
\* WHERE id = 1
UpdatePublished(d, ts, admin) ==
    [d EXCEPT !.control =
        {IF r.id = 1
         THEN [r EXCEPT !.published = 1, !.published_at = Some(ts),
                        !.publish_admin = Some(admin)]
         ELSE r : r \in @}]

\* SELECT published FROM control WHERE id = 1  ...  row and row[0] == 1
results_published(d) == \E r \in d.control : r.id = 1 /\ r.published = 1

\* SELECT published, published_at, publish_admin FROM control WHERE id = 1,
\* and the defaults returned when there is no row
get_publish_status(d) ==
    IF \E r \in d.control : r.id = 1
    THEN LET row == CHOOSE r \in d.control : r.id = 1
         IN  [published |-> (row.published = 1),
              published_at |-> row.published_at,
              publish_admin |-> row.publish_admin]
    ELSE [published |-> FALSE, published_at |-> NULL, publish_admin |-> NULL]

\* SELECT category, candidate, COUNT(*) FROM votes GROUP BY category, candidate:
\* the groups (FetchedCounts below puts them in the order of the rows)
get_vote_counts(d) ==
    {[category |-> v.category, candidate |-> v.candidate,
      votes |-> VoteCount(d, v.candidate, v.category)] : v \in d.votes}

\* get_voting_stats(): total_eligible is the constant 60 of line 241;
\* turnout_percentage is voted / total_eligible * 100, of which the model
\* keeps the whole part.
get_voting_stats(d) ==
    LET total_eligible == 60
        voted == Cardinality({x \in DOMAIN d.students :
                                 d.students[x].has_voted = 1})
    IN  [total_eligible |-> total_eligible,
         voted |-> voted,
         pending |-> total_eligible - voted,
         turnout_percentage |->
             IF total_eligible > 0 THEN (voted * 100) \div total_eligible
             ELSE 0,
         category_counts |->
             [c \in {v.category : v \in d.votes} |->
                 Cardinality({v \in d.votes : v.category = c})]]

\* ----------------------------------------------------------------- tallies

\* The lists that hold every element of S once
Perms(S) ==
    {f \in [1..Cardinality(S) -> S] : \A x \in S : \E k \in DOMAIN f : f[k] = x}

\* ORDER BY votes DESC: the orders in which the rows S can be fetched (SQL
\* leaves the order of rows with equal votes open)
OrderedByVotesDesc(S) ==
    {f \in Perms(S) :
        \A j, k \in DOMAIN f : j < k => f[j].votes >= f[k].votes}

\* SELECT candidate, COUNT(*) as votes FROM votes WHERE category = ?
\* GROUP BY candidate: the groups
CategoryCounts(d, cat) ==
    {[candidate |-> v.candidate, votes |-> VoteCount(d, v.candidate, cat)] :
        v \in {w \in d.votes : w.category = cat}}

\* The candidate of the first fetched row alone
TopRow(candidates) == <<candidates[1].candidate>>

\* [cand[0] for cand in candidates if cand[1] == max_votes], with
\* max_votes = candidates[0][1]
TiedAtTop(candidates) ==
    LET max_votes == candidates[1].votes
        tied == SelectSeq(candidates, LAMBDA cand : cand.votes = max_votes)
    IN  [k \in 1..Len(tied) |-> tied[k].candidate]

\* f with key c set to v (a dict assignment)
DictSet(f, c, v) == [x \in DOMAIN f \cup {c} |-> IF x = c THEN v ELSE f[x]]

NoWinners == [result |-> [c \in {} |-> << >>], winner_votes |-> [c \in {} |-> 0]]

RECURSIVE WinnersLoop(_, _)
\* winners() after the first n rounds of its loop over CATEGORIES: the
\* pairs (result, winner_votes) it can hold, one for each order in which the
\* queries can return their rows
WinnersLoop(d, n) ==
    IF n = 0 THEN {NoWinners}
    ELSE LET cat == CATEGORIES[n]
         IN  IF CategoryCounts(d, cat) = {}
             THEN WinnersLoop(d, n - 1)
             ELSE {[result |-> DictSet(w.result, cat, TiedAtTop(candidates)),
                    winner_votes |->
                        DictSet(w.winner_votes, cat, candidates[1].votes)] :
                      w \in WinnersLoop(d, n - 1),
                      candidates \in OrderedByVotesDesc(CategoryCounts(d, cat))}

\* winners(): what it can return on the tables d
winners(d) == WinnersLoop(d, Len(CATEGORIES))

\* ORDER BY category: the categories in the order of their names
CategoryCollation ==
    <<"Dayscholar Boy", "Dayscholar Girl", "Hostler Boy", "Hostler Girl">>

RECURSIVE CountsUpTo(_, _)
\* The rows of get_vote_counts for the first n categories of the collation,
\* in the orders ORDER BY category, votes DESC allows
CountsUpTo(d, n) ==
    IF n = 0 THEN {<< >>}
    ELSE {head \o rows :
            head \in CountsUpTo(d, n - 1),
            rows \in OrderedByVotesDesc(
                        {g \in get_vote_counts(d) :
                            g.category = CategoryCollation[n]})}

\* get_vote_counts(): the lists fetchall() can return on the tables d
FetchedCounts(d) == CountsUpTo(d, Len(CategoryCollation))

\* A DELETE that removes nothing
DeleteNone(d) == d

\* A DELETE FROM candidates followed by a DELETE FROM admin_logs
DeleteCandidatesAndLogs(d) ==
    [d EXCEPT !.candidates = {}, !.admin_logs = << >>]

\* A DELETE FROM control
DeleteControl(d) == [d EXCEPT !.control = {}]

\* The statements of reset_election
DeleteVotes(d) == [d EXCEPT !.votes = {}]
DeleteStudents(d) ==
    [d EXCEPT !.students = [x \in {} |-> [has_voted |-> 0, vote_timestamp |-> NULL]]]
DeleteCandidates(d) == [d EXCEPT !.candidates = {}]
ResetControl(d) ==
    [d EXCEPT !.control =
        {IF r.id = 1
         THEN [r EXCEPT !.published = 0, !.published_at = NULL,
                        !.publish_admin = NULL]
         ELSE r : r \in @}]

\* ------------------------------------------------------------------- state

VARIABLES
    db,          \* the committed database
    txdb,        \* the open write transaction's view (= db when none is open)
    wlock,       \* the session whose connection holds the write lock, or "none"
    clock,       \* how many times datetime.now() was read
    pc,          \* per session: the statement its running operation is at
    call,        \* per session: the running operation's arguments and locals,
                 \* and what the last run of a results page fetched
    result,      \* per session: what the core operation of its last finished
                 \* script run returned (the message the page shows), else
                 \* "none"
    menu,        \* per session: the page chosen in the sidebar ("main_menu")
    voting_complete, verified, student_id, reviewing_votes, selections,
    admin_authenticated   \* per session: st.session_state

vars == <<db, txdb, wlock, clock, pc, call, result, menu, voting_complete,
          verified, student_id, reviewing_votes, selections, admin_authenticated>>

session_vars == <<menu, voting_complete, verified, student_id, reviewing_votes,
                  selections, admin_authenticated>>

NoSelections == [c \in {} |-> << >>]

NoCall == [sid |-> << >>, sel |-> NoSelections, ts |-> 0, name |-> << >>,
           category |-> "", i |-> 0,
           page |-> "", counts |-> << >>, winners_data |-> NoWinners,
           stats |-> << >>]

RECURSIVE AddedAll(_, _)
\* The database after add_candidate(name, c) has run for the first n
\* categories c
AddedAll(name, n) ==
    IF n = 0 THEN init_db
    ELSE InsertLog(InsertCandidate(AddedAll(name, n - 1), name, CATEGORIES[n]),
                   "ADD_CANDIDATE", CandidateDetails(name, CATEGORIES[n]))

\* The election as set up: a new database in which the admin has added one
\* candidate to every category.  (An emptied database is reached from it by
\* reset_election.)
SetUp == AddedAll(<<"A">>, Len(CATEGORIES))

RECURSIVE Voted(_, _, _, _, _)
\* The database after the first n INSERTs of submit_votes(sid, sel) at ts
\* and, past the last of them, its INSERT OR REPLACE INTO students
Voted(d, sid, sel, ts, n) ==
    IF n = 0 THEN d
    ELSE IF n > Len(CATEGORIES)
    THEN UpsertStudent(Voted(d, sid, sel, ts, n - 1), sid, ts)
    ELSE InsertVote(Voted(d, sid, sel, ts, n - 1), sid, CATEGORIES[n],
                    sel[CATEGORIES[n]], ts)

\* The election once a first ballot is in: AIE24261 has voted, at the
\* clock's first reading, for the candidate of every category.
Polled ==
    Voted(SetUp, S_AIE24261, [c \in CategorySet |-> <<"A">>], 1,
          Len(CATEGORIES) + 1)

\* The sessions of browsers that have just opened the app
NewSessions ==
    /\ wlock = "none"
    /\ pc = [s \in Sessions |-> "idle"]
    /\ call = [s \in Sessions |-> NoCall]
    /\ result = [s \in Sessions |-> "none"]
    /\ menu \in Populations
    /\ voting_complete = [s \in Sessions |-> FALSE]
    /\ verified = [s \in Sessions |-> FALSE]
    /\ student_id = [s \in Sessions |-> << >>]
    /\ reviewing_votes = [s \in Sessions |-> FALSE]
    /\ selections = [s \in Sessions |-> NoSelections]
    /\ admin_authenticated = [s \in Sessions |-> FALSE]

Init ==
    /\ db = SetUp
    /\ txdb = SetUp
    /\ clock = 0
    /\ NewSessions

\* The browsers open the app when the first ballot is in, one of them at
\* least to vote.
InitPolled ==
    /\ db = Polled
    /\ txdb = Polled
    /\ clock = 1
    /\ NewSessions
    /\ \E s \in Sessions : menu[s] = "Student Voting"

\* ------------------------------------------------------------ transactions

\* A connection can write when no other connection holds the write lock
\* (otherwise it waits, up to the 30 s busy timeout).
CanWrite(s) == wlock \in {"none", s}

\* A connection that reads the uncommitted writes of the others
DirtyView(s) == txdb

\* What the connection of s sees: its own uncommitted writes, else the
\* committed state.
View(s) == IF wlock = s THEN txdb ELSE db

\* A write statement that is committed as it runs (autocommit)
WriteThrough(s, d) ==
    /\ wlock \in {"none", s}
    /\ wlock' = s
    /\ txdb' = d
    /\ db' = d

\* A write statement of s leaving the tables as d: it opens the transaction if
\* none is open, and changes the transaction's view only.
Write(s, d) ==
    /\ CanWrite(s)
    /\ wlock' = s
    /\ txdb' = d
    /\ db' = db

\* conn.commit()
Commit(s) ==
    /\ wlock = s
    /\ db' = txdb
    /\ txdb' = txdb
    /\ wlock' = "none"

\* A rollback that keeps what the transaction wrote
RollbackKeeps(s) ==
    /\ db' = IF wlock = s THEN txdb ELSE db
    /\ txdb' = IF wlock = s THEN txdb ELSE txdb
    /\ wlock' = IF wlock = s THEN "none" ELSE wlock

\* conn.rollback(), or conn.close() with a transaction open
Rollback(s) ==
    /\ db' = db
    /\ txdb' = IF wlock = s THEN db ELSE txdb
    /\ wlock' = IF wlock = s THEN "none" ELSE wlock

\* An operation of s ends: its locals are dropped and `r` is what it returned.
Return(s, r) ==
    /\ pc' = [pc EXCEPT ![s] = "idle"]
    /\ call' = [call EXCEPT ![s] = NoCall]
    /\ result' = [result EXCEPT ![s] = r]

Goto(s, label) == pc' = [pc EXCEPT ![s] = label]

\* A script run of s that calls no core operation finishes: the message of
\* the run before it is gone.  (A run that calls one replaces the message
\* when the operation returns.)
NewRun(s) == result' = [result EXCEPT ![s] = "none"]

\* datetime.now().isoformat(): every reading is later than the ones before.
\* clock counts the readings that an operation went on to use; a reading
\* that is dropped unused (submit_votes returning at its guard) is not
\* counted, since nothing can tell it from no reading.
Now == clock + 1

\* ------------------------------------------------------------ student flow

\* The session shows the menu and the pages (not the thank-you page) and no
\* operation of it is running.
AtPage(s) == pc[s] = "idle" /\ ~voting_complete[s]

AtVoting(s) == AtPage(s) /\ menu[s] = "Student Voting"

\* "Verify & Proceed" of the login form
Login(s) ==
    /\ NewRun(s)
    /\ AtVoting(s)
    /\ ~verified[s]
    /\ \E sid \in EnteredIds(s), pwd \in EnteredPasswords, store_fails \in BOOLEAN :
        IF /\ sid # << >>
           /\ pwd = STUDENT_PASSWORD
           /\ valid_student_id(sid)
           /\ ~store_fails
           /\ ~already_voted(db, sid)
        THEN /\ student_id' = [student_id EXCEPT ![s] = sid]
             /\ verified' = [verified EXCEPT ![s] = TRUE]
        ELSE UNCHANGED <<student_id, verified>>
    /\ UNCHANGED <<db, txdb, wlock, clock, pc, call, menu, voting_complete,
                   reviewing_votes, selections, admin_authenticated>>

\* The categories for which the user has picked a candidate in the form:
\* all of them, the first one only, or none
PickedSets == {CategorySet, {CATEGORIES[1]}, {}}

\* One run of the voting form: what the select boxes hold, given the
\* candidates now in the table
FormChoices ==
    UNION {[picked -> UNION {get_candidates(db, c) : c \in picked}] :
               picked \in PickedSets}

FormSelections ==
    {sel \in FormChoices : \A c \in DOMAIN sel : sel[c] \in get_candidates(db, c)}

\* A form that is also shown while the votes are under review
InFormOrReview(s) == AtVoting(s) /\ verified[s]

InForm(s) == AtVoting(s) /\ verified[s] /\ ~reviewing_votes[s]

\* A run of the main voting form, with or without a click on
\* "Review & Submit" (shown when every category has a selection)
VotingForm(s) ==
    /\ NewRun(s)
    /\ InForm(s)
    /\ \E sel \in FormSelections, click \in BOOLEAN :
        /\ selections' = [selections EXCEPT ![s] = sel]
        /\ reviewing_votes' =
             [reviewing_votes EXCEPT
                 ![s] = (/\ click
                         /\ DOMAIN sel = CategorySet
                         /\ Cardinality(DOMAIN sel) = Len(CATEGORIES))]
    /\ UNCHANGED <<db, txdb, wlock, clock, pc, call, menu, voting_complete,
                   verified, student_id, admin_authenticated>>

\* A run of the form with a click on "Back to Login"
BackToLogin(s) ==
    /\ NewRun(s)
    /\ InForm(s)
    /\ \E sel \in FormSelections :
        selections' = [selections EXCEPT ![s] = sel]
    /\ verified' = [verified EXCEPT ![s] = FALSE]
    /\ student_id' = [student_id EXCEPT ![s] = << >>]
    /\ UNCHANGED <<db, txdb, wlock, clock, pc, call, menu, voting_complete,
                   reviewing_votes, admin_authenticated>>

InReview(s) == AtVoting(s) /\ verified[s] /\ reviewing_votes[s]

\* "Edit Votes" of the review page
EditVotes(s) ==
    /\ NewRun(s)
    /\ InReview(s)
    /\ reviewing_votes' = [reviewing_votes EXCEPT ![s] = FALSE]
    /\ UNCHANGED <<db, txdb, wlock, clock, pc, call, menu, voting_complete,
                   verified, student_id, selections, admin_authenticated>>

\* ------------------------------------------------------------ submit_votes

\* selections.items(): the entries in insertion order, which is the order of
\* CATEGORIES in which the form fills the dict
Items(sel) == SelectSeq(CATEGORIES, LAMBDA c : c \in DOMAIN sel)

\* "Confirm & Submit": submit_votes(student_id, selections) up to its guard.
\* The timestamp is read, then has_voted is read outside any transaction.
SubmitBegin(s) ==
    /\ InReview(s)
    /\ clock < MaxClock
    /\ \E store_fails \in BOOLEAN :
        IF store_fails
        THEN Return(s, "submit_raised") /\ clock' = clock
        ELSE IF already_voted(db, student_id[s])
        THEN Return(s, "submit_already_voted") /\ clock' = clock
        ELSE /\ clock' = Now
             /\ Goto(s, "sv_insert")
             /\ call' = [call EXCEPT ![s] = [NoCall EXCEPT
                            !.sid = student_id[s], !.sel = selections[s],
                            !.ts = Now, !.i = 1]]
             /\ result' = result
    /\ UNCHANGED <<db, txdb, wlock, session_vars>>

\* One INSERT INTO votes of the loop over selections.items()
SubmitInsert(s) ==
    /\ pc[s] = "sv_insert"
    /\ call[s].i <= Len(Items(call[s].sel))
    /\ LET cat == Items(call[s].sel)[call[s].i]
       IN  Write(s, InsertVote(View(s), call[s].sid, cat, call[s].sel[cat],
                               call[s].ts))
    /\ call' = [call EXCEPT ![s].i = @ + 1]
    /\ UNCHANGED <<clock, pc, result, session_vars>>

\* INSERT OR REPLACE INTO students, after the last vote row
SubmitMark(s) ==
    /\ pc[s] = "sv_insert"
    /\ call[s].i > Len(Items(call[s].sel))
    /\ Write(s, UpsertStudent(View(s), call[s].sid, call[s].ts))
    /\ Goto(s, "sv_commit")
    /\ UNCHANGED <<clock, call, result, session_vars>>

\* conn.commit(), return True, and the handler's voting_complete = True
SubmitCommit(s) ==
    /\ pc[s] = "sv_commit"
    /\ Commit(s)
    /\ Return(s, "submit_ok")
    /\ voting_complete' = [voting_complete EXCEPT ![s] = TRUE]
    /\ UNCHANGED <<clock, menu, verified, student_id, reviewing_votes,
                   selections, admin_authenticated>>

\* A statement of the try block (an INSERT, the upsert, the commit) raises:
\* a disk error, or "database is locked" after the busy timeout.
\* except Exception: conn.rollback(); return False
SubmitFail(s) ==
    /\ pc[s] \in {"sv_insert", "sv_commit"}
    /\ Rollback(s)
    /\ Return(s, "submit_error")
    /\ UNCHANGED <<clock, session_vars>>

\* ------------------------------------------------------- log_admin_action

\* The operations that write the admin log once they have committed, by the
\* statements they can be at
LoggingPcs == {"ac_commit", "ac_log", "dc_count", "dc_delete", "dc_commit",
               "dc_log", "pr_select", "pr_update", "pr_commit", "pr_log",
               "re_students", "re_candidates", "re_control", "re_commit",
               "re_log"}

\* A logging operation may start while the log has room for its entry and
\* for those of the operations already running.
LogHasRoom ==
    Len(db.admin_logs) + Cardinality({t \in Sessions : pc[t] \in LoggingPcs})
        < MaxLog

\* log_admin_action(action, details): its own connection, one INSERT and the
\* commit
log_admin_action(s, action, details) ==
    /\ wlock = "none"
    /\ db' = InsertLog(db, action, details)
    /\ txdb' = db'
    /\ wlock' = wlock

\* ------------------------------------------------------------- admin panel

AtAdmin(s) ==
    AtPage(s) /\ menu[s] = "Admin Panel" /\ admin_authenticated[s]

\* "Login" of the admin panel
AdminLogin(s) ==
    /\ NewRun(s)
    /\ AtPage(s)
    /\ menu[s] = "Admin Panel"
    /\ ~admin_authenticated[s]
    /\ \E ap \in {ADMIN_PASSWORD, "guess"} :
        admin_authenticated' =
            [admin_authenticated EXCEPT ![s] = (ap = ADMIN_PASSWORD)]
    /\ UNCHANGED <<db, txdb, wlock, clock, pc, call, menu, voting_complete,
                   verified, student_id, reviewing_votes, selections>>

\* "Logout Admin" of the sidebar
AdminLogout(s) ==
    /\ NewRun(s)
    /\ AtAdmin(s)
    /\ admin_authenticated' = [admin_authenticated EXCEPT ![s] = FALSE]
    /\ UNCHANGED <<db, txdb, wlock, clock, pc, call, menu, voting_complete,
                   verified, student_id, reviewing_votes, selections>>

\* ----------------------------------------------------------- add_candidate

\* "Add Candidate": the handler's blank-name check, then
\* add_candidate(name.strip(), cat) up to its INSERT
AddCandidate(s) ==
    /\ AtAdmin(s)
    /\ \E typed \in EnteredNames, cat \in PickedCategories,
          store_fails \in BOOLEAN :
        LET name == Strip(Strip(typed))
        IN  IF Strip(typed) = << >>
            THEN NewRun(s) /\ UNCHANGED <<db, txdb, wlock, pc, call>>
            ELSE IF store_fails
            THEN Return(s, "add_raised") /\ UNCHANGED <<db, txdb, wlock>>
            ELSE /\ CanWrite(s)
                 /\ IF CandidateExists(View(s), name, cat)
                    THEN Return(s, "add_exists") /\ UNCHANGED <<db, txdb, wlock>>
                    ELSE /\ LogHasRoom
                         /\ View(s).cand_seq < MaxCandidateId
                         /\ Write(s, InsertCandidate(View(s), name, cat))
                         /\ Goto(s, "ac_commit")
                         /\ call' = [call EXCEPT ![s] = [NoCall EXCEPT
                                        !.name = Strip(typed), !.category = cat]]
                         /\ result' = result
    /\ UNCHANGED <<clock, session_vars>>

\* conn.commit() of add_candidate
AddCommit(s) ==
    /\ pc[s] = "ac_commit"
    /\ Commit(s)
    /\ Goto(s, "ac_log")
    /\ UNCHANGED <<clock, call, result, session_vars>>

\* log_admin_action("ADD_CANDIDATE", ...) and return True
AddLog(s) ==
    /\ pc[s] = "ac_log"
    /\ log_admin_action(s, "ADD_CANDIDATE",
                        CandidateDetails(call[s].name, call[s].category))
    /\ Return(s, "add_ok")
    /\ UNCHANGED <<clock, session_vars>>

\* The commit or the log write raises: not an IntegrityError, so it leaves
\* add_candidate as an exception (finally: conn.close()).
AddFail(s) ==
    /\ pc[s] \in {"ac_commit", "ac_log"}
    /\ Rollback(s)
    /\ Return(s, "add_raised")
    /\ UNCHANGED <<clock, session_vars>>

\* -------------------------------------------------------- delete_candidate

\* A run of the "Delete Candidate" tab with a click on "Delete Candidate":
\* the button is shown for a listed candidate whose displayed count is 0.
DeleteClick(s) ==
    /\ AtAdmin(s)
    /\ LogHasRoom
    /\ \E r \in db.candidates :
        /\ r.category \in PickedCategories
        /\ VoteCount(db, r.name, r.category) = 0
        /\ call' = [call EXCEPT ![s] = [NoCall EXCEPT
                       !.name = r.name, !.category = r.category]]
    /\ Goto(s, "dc_count")
    /\ UNCHANGED <<db, txdb, wlock, clock, result, session_vars>>

\* delete_candidate without its vote_count check
DeleteCountSkipped(s) ==
    /\ pc[s] = "dc_count"
    /\ Goto(s, "dc_delete")
    /\ UNCHANGED <<db, txdb, wlock, clock, call, result, session_vars>>

\* delete_candidate up to its vote_count check
DeleteCount(s) ==
    /\ pc[s] = "dc_count"
    /\ IF VoteCount(db, call[s].name, call[s].category) > 0
       THEN Return(s, "delete_has_votes")
       ELSE Goto(s, "dc_delete") /\ UNCHANGED <<call, result>>
    /\ UNCHANGED <<db, txdb, wlock, clock, session_vars>>

\* DELETE FROM candidates, and the rowcount check
DeleteRows(s) ==
    /\ pc[s] = "dc_delete"
    /\ CanWrite(s)
    /\ IF DeleteRowCount(View(s), call[s].name, call[s].category) > 0
       THEN /\ Write(s, DeleteCandidateRows(View(s), call[s].name,
                                            call[s].category))
            /\ Goto(s, "dc_commit")
            /\ UNCHANGED <<call, result>>
       ELSE Rollback(s) /\ Return(s, "delete_not_found")
    /\ UNCHANGED <<clock, session_vars>>

\* conn.commit() of delete_candidate
DeleteCommit(s) ==
    /\ pc[s] = "dc_commit"
    /\ Commit(s)
    /\ Goto(s, "dc_log")
    /\ UNCHANGED <<clock, call, result, session_vars>>

\* log_admin_action("DELETE_CANDIDATE", ...) and return True
DeleteLog(s) ==
    /\ pc[s] = "dc_log"
    /\ log_admin_action(s, "DELETE_CANDIDATE",
                        CandidateDetails(call[s].name, call[s].category))
    /\ Return(s, "delete_ok")
    /\ UNCHANGED <<clock, session_vars>>

\* A statement of the try block raises: except Exception returns False with
\* the error's text (finally: conn.close()).
DeleteFail(s) ==
    /\ pc[s] \in {"dc_count", "dc_delete", "dc_commit", "dc_log"}
    /\ Rollback(s)
    /\ Return(s, "delete_error")
    /\ UNCHANGED <<clock, session_vars>>

\* --------------------------------------------------------- publish_results

\* A run of the "Publish Results" page with a click on "CONFIRM AND PUBLISH":
\* the button is shown when get_publish_status says unpublished and
\* get_vote_counts is not empty.
PublishClick(s) ==
    /\ AtAdmin(s)
    /\ LogHasRoom
    /\ clock < MaxClock
    /\ ~results_published(db)
    /\ get_vote_counts(db) # {}
    /\ Goto(s, "pr_select")
    /\ UNCHANGED <<db, txdb, wlock, clock, call, result, session_vars>>

\* publish_results: publish_time, and SELECT COUNT(*) FROM control WHERE id = 1
PublishSelect(s) ==
    /\ pc[s] = "pr_select"
    /\ clock' = Now
    /\ call' = [call EXCEPT ![s] = [NoCall EXCEPT !.ts = Now,
                                                   !.i = ControlCount(db)]]
    /\ Goto(s, "pr_update")
    /\ UNCHANGED <<db, txdb, wlock, result, session_vars>>

\* The INSERT of a missing control row, and the UPDATE
PublishUpdate(s) ==
    /\ pc[s] = "pr_update"
    /\ Write(s, UpdatePublished(EnsureControl(View(s), call[s].i),
                                call[s].ts, "Admin"))
    /\ Goto(s, "pr_commit")
    /\ UNCHANGED <<clock, call, result, session_vars>>

\* conn.commit(); conn.close() of publish_results
PublishCommit(s) ==
    /\ pc[s] = "pr_commit"
    /\ Commit(s)
    /\ Goto(s, "pr_log")
    /\ UNCHANGED <<clock, call, result, session_vars>>

\* log_admin_action("PUBLISH_RESULTS", ...) and return True
PublishLog(s) ==
    /\ pc[s] = "pr_log"
    /\ log_admin_action(s, "PUBLISH_RESULTS", TimestampDetails(call[s].ts))
    /\ Return(s, "publish_ok")
    /\ UNCHANGED <<clock, session_vars>>

\* A statement of publish_results raises: nothing in it catches, the
\* exception leaves the function and its connection is released.
PublishFail(s) ==
    /\ pc[s] \in {"pr_select", "pr_update", "pr_commit", "pr_log"}
    /\ Rollback(s)
    /\ Return(s, "publish_raised")
    /\ UNCHANGED <<clock, session_vars>>

\* ---------------------------------------------------------- reset_election

\* "CONFIRM COMPLETE ELECTION RESET": reset_election up to DELETE FROM votes
ResetClick(s) ==
    /\ AtAdmin(s)
    /\ LogHasRoom
    /\ clock < MaxClock
    /\ Write(s, DeleteVotes(View(s)))
    /\ Goto(s, "re_students")
    /\ UNCHANGED <<clock, call, result, session_vars>>

\* DELETE FROM students
ResetStudents(s) ==
    /\ pc[s] = "re_students"
    /\ Write(s, DeleteStudents(View(s)))
    /\ Goto(s, "re_candidates")
    /\ UNCHANGED <<clock, call, result, session_vars>>

\* DELETE FROM candidates
ResetCandidates(s) ==
    /\ pc[s] = "re_candidates"
    /\ Write(s, DeleteCandidates(View(s)))
    /\ Goto(s, "re_control")
    /\ UNCHANGED <<clock, call, result, session_vars>>

\* UPDATE control SET published = 0, ...
ResetControlRow(s) ==
    /\ pc[s] = "re_control"
    /\ Write(s, ResetControl(View(s)))
    /\ Goto(s, "re_commit")
    /\ UNCHANGED <<clock, call, result, session_vars>>

\* conn.commit(); conn.close() of reset_election
ResetCommit(s) ==
    /\ pc[s] = "re_commit"
    /\ Commit(s)
    /\ Goto(s, "re_log")
    /\ UNCHANGED <<clock, call, result, session_vars>>

\* log_admin_action("RESET_ELECTION", ...), then the handler logs the admin
\* out
ResetLog(s) ==
    /\ pc[s] = "re_log"
    /\ clock' = Now
    /\ log_admin_action(s, "RESET_ELECTION", TimestampDetails(Now))
    /\ Return(s, "reset_ok")
    /\ admin_authenticated' = [admin_authenticated EXCEPT ![s] = FALSE]
    /\ UNCHANGED <<menu, voting_complete, verified, student_id,
                   reviewing_votes, selections>>

\* A statement of reset_election raises: nothing in it catches, the exception
\* leaves the function and its connection is released.
ResetFail(s) ==
    /\ pc[s] \in {"re_students", "re_candidates", "re_control", "re_commit",
                  "re_log"}
    /\ Rollback(s)
    /\ Return(s, "reset_raised")
    /\ UNCHANGED <<clock, session_vars>>

\* ------------------------------------------------------------- environment

\* The browser page is reloaded: a new st.session_state
Reload(s) ==
    /\ pc[s] = "idle"
    /\ result' = [result EXCEPT ![s] = "none"]
    /\ voting_complete' = [voting_complete EXCEPT ![s] = FALSE]
    /\ verified' = [verified EXCEPT ![s] = FALSE]
    /\ student_id' = [student_id EXCEPT ![s] = << >>]
    /\ reviewing_votes' = [reviewing_votes EXCEPT ![s] = FALSE]
    /\ selections' = [selections EXCEPT ![s] = NoSelections]
    /\ admin_authenticated' = [admin_authenticated EXCEPT ![s] = FALSE]
    /\ UNCHANGED <<db, txdb, wlock, clock, pc, call, menu>>

\* The server process dies and is started again: the sessions and the open
\* transaction are gone, the committed database is what the file holds.
Crash ==
    /\ \E s \in Sessions : pc[s] # "idle"
    /\ db' = db
    /\ txdb' = db
    /\ wlock' = "none"
    /\ clock' = clock
    /\ pc' = [s \in Sessions |-> "idle"]
    /\ call' = [s \in Sessions |-> NoCall]
    /\ result' = [s \in Sessions |-> "none"]
    /\ menu' = menu
    /\ voting_complete' = [s \in Sessions |-> FALSE]
    /\ verified' = [s \in Sessions |-> FALSE]
    /\ student_id' = [s \in Sessions |-> << >>]
    /\ reviewing_votes' = [s \in Sessions |-> FALSE]
    /\ selections' = [s \in Sessions |-> NoSelections]
    /\ admin_authenticated' = [s \in Sessions |-> FALSE]

\* ----------------------------------------------------------- specification

\* init_db() at the top of the script: every script run calls it before the
\* page's code, and the statements of other sessions can run between the
\* two.  On the existing file its CREATE TABLE IF NOT EXISTS statements do
\* nothing; its last statements count the rows of control and insert the
\* row when there is none.
InitDbRerun(s) ==
    /\ pc[s] = "idle"
    /\ IF Cardinality(db.control) = 0
       THEN /\ wlock = "none"
            /\ db' = EnsureControl(db, 0)
            /\ txdb' = db'
       ELSE UNCHANGED <<db, txdb>>
    /\ UNCHANGED <<wlock, clock, pc, call, result, session_vars>>

SessionStep(s) ==
    \/ Login(s)
    \/ VotingForm(s)
    \/ BackToLogin(s)
    \/ EditVotes(s)
    \/ SubmitBegin(s)
    \/ SubmitInsert(s)
    \/ SubmitMark(s)
    \/ SubmitCommit(s)
    \/ SubmitFail(s)
    \/ AdminLogin(s)
    \/ AdminLogout(s)
    \/ AddCandidate(s)
    \/ AddCommit(s)
    \/ AddLog(s)
    \/ AddFail(s)
    \/ DeleteClick(s)
    \/ DeleteCount(s)
    \/ DeleteRows(s)
    \/ DeleteCommit(s)
    \/ DeleteLog(s)
    \/ DeleteFail(s)
    \/ PublishClick(s)
    \/ PublishSelect(s)
    \/ PublishUpdate(s)
    \/ PublishCommit(s)
    \/ PublishLog(s)
    \/ PublishFail(s)
    \/ ResetClick(s)
    \/ ResetStudents(s)
    \/ ResetCandidates(s)
    \/ ResetControlRow(s)
    \/ ResetCommit(s)
    \/ ResetLog(s)
    \/ ResetFail(s)
    \/ Reload(s)
    \/ InitDbRerun(s)

Next == (\E s \in Sessions : SessionStep(s)) \/ Crash

\* The sessions' operations interleave statement by statement.
Spec == Init /\ [][Next]_vars

\* The session is inside a core operation (between its first statement and
\* its return); "dc_count" is the handler about to call delete_candidate.
InOperation(s) == pc[s] \notin {"idle", "dc_count"}

NextAlone ==
    \/ \E s \in Sessions :
        /\ \A t \in Sessions \ {s} : ~InOperation(t)
        /\ SessionStep(s)
    \/ Crash

\* Every core operation runs from its first statement to its return without a
\* step of another session in between.
SpecAlone == Init /\ [][NextAlone]_vars

\* The interleaved operations on an election that already has a ballot in
SpecPolled == InitPolled /\ [][Next]_vars

\* ------------------------------------------------------- the tallied election

\* at most MaxVotes ballots of each kind are in the tallied election
MaxVotes == 3

\* the candidates the admin has added to every category
Nominees == <<(<<"A">>), (<<"B">>), (<<"C">>)>>

RECURSIVE Nominated(_)
\* The database after the first k calls of add_candidate, which go through
\* the nominees and, for each, through the categories
Nominated(k) ==
    IF k = 0 THEN init_db
    ELSE LET name == Nominees[((k - 1) \div Len(CATEGORIES)) + 1]
             cat == CATEGORIES[((k - 1) % Len(CATEGORIES)) + 1]
         IN  InsertLog(InsertCandidate(Nominated(k - 1), name, cat),
                       "ADD_CANDIDATE", CandidateDetails(name, cat))

RECURSIVE InsertVotes(_, _, _, _, _)
\* The loop of submit_votes over selections.items(), for the categories cats
InsertVotes(d, sid, sel, ts, cats) ==
    IF cats = {} THEN d
    ELSE LET cat == CHOOSE c \in cats : TRUE
         IN  InsertVote(InsertVotes(d, sid, sel, ts, cats \ {cat}), sid, cat,
                        sel[cat], ts)

\* The database after submit_votes(sid, sel) has committed at ts
Submitted(d, sid, sel, ts) ==
    UpsertStudent(InsertVotes(d, sid, sel, ts, DOMAIN sel), sid, ts)

\* The k-th student of the class: AIE24201 is the first
StudentNo(k) ==
    <<"A", "I", "E", "2", "4", "2", ToString(k \div 10), ToString(k % 10)>>

\* The kinds of ballot in the tallied election: all for A, all for B, and a
\* ballot that splits between A, B and C and has nothing for the last
\* category (selections is a dict that need not hold every category).
BallotKinds ==
    <<[c \in CategorySet |-> <<"A">>],
      [c \in CategorySet |-> <<"B">>],
      [c \in CategorySet \ {CATEGORIES[Len(CATEGORIES)]} |->
          IF c = CATEGORIES[1] THEN <<"A">>
          ELSE IF c = CATEGORIES[2] THEN <<"B">> ELSE <<"C">>]>>

\* The ballots of kind j that are in
BallotsOf(d, j) ==
    IF j = 1 THEN VoteCount(d, <<"A">>, CATEGORIES[Len(CATEGORIES)])
    ELSE IF j = 2 THEN VoteCount(d, <<"B">>, CATEGORIES[Len(CATEGORIES)])
    ELSE VoteCount(d, <<"C">>, CATEGORIES[Len(CATEGORIES) - 1])

\* The admin and a student open the app on an election that has its
\* candidates and no ballot yet.
InitTally ==
    /\ db = Nominated(Len(Nominees) * Len(CATEGORIES))
    /\ txdb = db
    /\ clock = 0
    /\ NewSessions
    /\ \E s \in Sessions : menu[s] = "Admin Panel"
    /\ \E s \in Sessions : menu[s] = "Student Voting"

\* The next student of the class votes from a browser of their own, and
\* submit_votes runs from its call to its commit: a ballot of kind j.  The
\* ballots come in kind after kind, and before the admin has opened a
\* results page.
CastBallot(j) ==
    /\ wlock = "none"
    /\ \A s \in Sessions : call[s] = NoCall
    /\ BallotsOf(db, j) < MaxVotes
    /\ \A later \in (j + 1)..Len(BallotKinds) : BallotsOf(db, later) = 0
    /\ db' = Submitted(db, StudentNo(Now), BallotKinds[j], Now)
    /\ txdb' = db'
    /\ clock' = Now
    /\ UNCHANGED <<wlock, pc, call, result, session_vars>>

\* A run of the admin's "View Votes" page: it fetches the counts.
ViewVotes(s) ==
    /\ NewRun(s)
    /\ AtAdmin(s)
    /\ \E rows \in FetchedCounts(db) :
        call' = [call EXCEPT ![s] =
                    [NoCall EXCEPT !.page = "View Votes", !.counts = rows]]
    /\ UNCHANGED <<db, txdb, wlock, clock, pc, session_vars>>

\* A run of the admin's "Publish Results" page: when the results are
\* published it calls winners(); when they are not, it fetches the counts
\* and calls winners() if there are any, for the preview.
PublishPage(s) ==
    /\ NewRun(s)
    /\ AtAdmin(s)
    /\ IF get_publish_status(db).published
       THEN \E w \in winners(db) :
               call' = [call EXCEPT ![s] =
                           [NoCall EXCEPT !.page = "Publish Results",
                                          !.winners_data = w]]
       ELSE \E rows \in FetchedCounts(db) :
               IF rows = << >>
               THEN call' = [call EXCEPT ![s] =
                                [NoCall EXCEPT !.page = "Publish Results"]]
               ELSE \E w \in winners(db) :
                       call' = [call EXCEPT ![s] =
                                   [NoCall EXCEPT !.page = "Publish Results",
                                                  !.counts = rows,
                                                  !.winners_data = w]]
    /\ UNCHANGED <<db, txdb, wlock, clock, pc, session_vars>>

NextTally ==
    \/ \E j \in 1..Len(BallotKinds) : CastBallot(j)
    \/ \E s \in Sessions :
        \/ AdminLogin(s)
        \/ AdminLogout(s)
        \/ ViewVotes(s)
        \/ PublishPage(s)

\* The class votes, and then the admin looks at the tallies.
SpecTally == InitTally /\ [][NextTally]_vars

\* ---------------------------------------------------------- the login form

\* a typed student ID ends with at most MaxTail characters of TailChars
MaxTail == 3

Pads == {<< >>, <<" ">>}
Prefixes ==
    {<<"A", "I", "E", "2", "4">>, <<"a", "i", "e", "2", "4">>,
     <<"B", "I", "E", "2", "4">>}
Middles == {<< >>, <<"X">>, <<"2">>}
TailChars == {"0", "1", "2", "6"}
Tails == UNION {[1..n -> TailChars] : n \in 0..MaxTail}

\* What a user can type into the student-ID box: a prefix, possibly
\* something after it, some digits, and possibly blanks around it all
TypedIds ==
    {<< >>} \cup
    {pad \o prefix \o middle \o tail \o pad :
        pad \in Pads, prefix \in Prefixes, middle \in Middles, tail \in Tails}

\* The admin and a student open the app on the election as set up, and the
\* student has typed an ID into the student-ID box (the widget keeps it
\* under "login_sid"; the model keeps it in call[s].sid).
InitEntry ==
    /\ db = SetUp
    /\ txdb = SetUp
    /\ clock = 0
    /\ wlock = "none"
    /\ pc = [s \in Sessions |-> "idle"]
    /\ result = [s \in Sessions |-> "none"]
    /\ menu \in Populations
    /\ \E s \in Sessions : menu[s] = "Admin Panel"
    /\ \E s \in Sessions : menu[s] = "Student Voting"
    /\ \E sid \in TypedIds :
        call = [s \in Sessions |->
                   IF menu[s] = "Student Voting"
                   THEN [NoCall EXCEPT !.sid = sid] ELSE NoCall]
    /\ voting_complete = [s \in Sessions |-> FALSE]
    /\ verified = [s \in Sessions |-> FALSE]
    /\ student_id = [s \in Sessions |-> << >>]
    /\ reviewing_votes = [s \in Sessions |-> FALSE]
    /\ selections = [s \in Sessions |-> NoSelections]
    /\ admin_authenticated = [s \in Sessions |-> FALSE]

\* "Verify & Proceed" of the login form on what is in the box, with what
\* the page answers
LoginForm(s) ==
    /\ AtVoting(s)
    /\ ~verified[s]
    /\ \E pwd \in EnteredPasswords, store_fails \in BOOLEAN :
        LET sid == call[s].sid
        IN  IF sid = << >>
            THEN /\ result' = [result EXCEPT
                                  ![s] = "Please enter both Student ID and Password"]
                 /\ UNCHANGED <<student_id, verified>>
            ELSE IF pwd # STUDENT_PASSWORD
            THEN /\ result' = [result EXCEPT ![s] = "Invalid password"]
                 /\ UNCHANGED <<student_id, verified>>
            ELSE IF ~valid_student_id(sid)
            THEN /\ result' = [result EXCEPT ![s] = "Invalid Student ID format"]
                 /\ UNCHANGED <<student_id, verified>>
            ELSE IF store_fails
            THEN /\ result' = [result EXCEPT ![s] = "exception"]
                 /\ UNCHANGED <<student_id, verified>>
            ELSE IF already_voted(db, sid)
            THEN /\ result' = [result EXCEPT ![s] = "You have already voted"]
                 /\ UNCHANGED <<student_id, verified>>
            ELSE /\ result' = [result EXCEPT ![s] = "verified"]
                 /\ student_id' = [student_id EXCEPT ![s] = sid]
                 /\ verified' = [verified EXCEPT ![s] = TRUE]
    /\ UNCHANGED <<db, txdb, wlock, clock, pc, call, menu, voting_complete,
                   reviewing_votes, selections, admin_authenticated>>

NextEntry ==
    \E s \in Sessions :
        \/ LoginForm(s)
        \/ BackToLogin(s)
        \/ AdminLogin(s)
        \/ AdminLogout(s)

\* The student submits the login form with what is in its box.
SpecEntry == InitEntry /\ [][NextEntry]_vars

\* ---------------------------------------------------------- the voting wizard

\* The user picks the other page in the sidebar ("main_menu"); the sidebar
\* is not shown once the session has voted.
SwitchMenu(s) ==
    /\ NewRun(s)
    /\ AtPage(s)
    /\ menu' = [menu EXCEPT ![s] = IF @ = "Student Voting" THEN "Admin Panel"
                                   ELSE "Student Voting"]
    /\ UNCHANGED <<db, txdb, wlock, clock, pc, call, voting_complete, verified,
                   student_id, reviewing_votes, selections,
                   admin_authenticated>>

\* The browsers open the app on the election as set up: the sidebar shows
\* its first entry, "Student Voting".
InitWizard ==
    /\ db = SetUp
    /\ txdb = SetUp
    /\ clock = 0
    /\ NewSessions
    /\ menu = [s \in Sessions |-> "Student Voting"]

NextWizard ==
    \E s \in Sessions :
        \/ Login(s)
        \/ VotingForm(s)
        \/ BackToLogin(s)
        \/ EditVotes(s)
        \/ SwitchMenu(s)
        \/ AdminLogin(s)
        \/ AdminLogout(s)
        \/ SubmitBegin(s)
        \/ SubmitInsert(s)
        \/ SubmitMark(s)
        \/ SubmitCommit(s)
        \/ SubmitFail(s)
        \/ Reload(s)

\* The users go through the pages of the voting wizard and the sidebar.
SpecWizard == InitWizard /\ [][NextWizard]_vars

\* ------------------------------------------------------- the publishing admins

\* Two admins open the app, each on the admin panel, when the first ballot
\* is in.
InitAdmins ==
    /\ db = Polled
    /\ txdb = Polled
    /\ clock = 1
    /\ NewSessions
    /\ menu = [s \in Sessions |-> "Admin Panel"]

NextAdmins ==
    \E s \in Sessions :
        \/ AdminLogin(s)
        \/ AdminLogout(s)
        \/ PublishClick(s)
        \/ PublishSelect(s)
        \/ PublishUpdate(s)
        \/ PublishCommit(s)
        \/ PublishLog(s)
        \/ PublishFail(s)
        \/ Reload(s)

\* The admins publish the results, each from a browser of their own.
SpecAdmins == InitAdmins /\ [][NextAdmins]_vars

\* ------------------------------------------------------------ the whole class

\* The admin and a student open the app on the election as set up.
InitClass ==
    /\ db = SetUp
    /\ txdb = SetUp
    /\ clock = 0
    /\ NewSessions
    /\ \E s \in Sessions : menu[s] = "Admin Panel"
    /\ \E s \in Sessions : menu[s] = "Student Voting"

\* The next student of the class, whose ID the login accepts, votes from a
\* browser of their own for the candidate of every category, and
\* submit_votes runs from its call to its commit.
ClassVote ==
    /\ wlock = "none"
    /\ valid_student_id(StudentNo(Now))
    /\ ~already_voted(db, StudentNo(Now))
    /\ db' = Submitted(db, StudentNo(Now), [c \in CategorySet |-> <<"A">>], Now)
    /\ txdb' = db'
    /\ clock' = Now
    /\ UNCHANGED <<wlock, pc, call, result, session_vars>>

\* A run of the admin's "Dashboard" page: it shows get_voting_stats().
Dashboard(s) ==
    /\ NewRun(s)
    /\ AtAdmin(s)
    /\ call' = [call EXCEPT ![s] =
                   [NoCall EXCEPT !.page = "Dashboard",
                                  !.stats = get_voting_stats(db)]]
    /\ UNCHANGED <<db, txdb, wlock, clock, pc, session_vars>>

NextClass ==
    \/ ClassVote
    \/ \E s \in Sessions :
        \/ AdminLogin(s)
        \/ AdminLogout(s)
        \/ Dashboard(s)

\* The class votes, student after student, while the admin watches the
\* dashboard.
SpecClass == InitClass /\ [][NextClass]_vars

\* -------------------------------------------------------------- properties

\* The students row of sid says has_voted = 1
HasVoted(d, sid) ==
    \E x \in DOMAIN d.students : x = sid /\ d.students[x].has_voted = 1

\* The vote rows of a student, and those of one category
VoteRows(d, sid) == {v \in d.votes : v.student_id = sid}
CategoryRows(d, sid, cat) == {v \in VoteRows(d, sid) : v.category = cat}

\* Every student_id the students or the votes table names
StudentIds(d) == DOMAIN d.students \cup {v.student_id : v \in d.votes}

\* Exactly one set of vote rows: one row for each of the fixed categories
OneBallot(d, sid) ==
    /\ \A c \in CategorySet : Cardinality(CategoryRows(d, sid, c)) = 1
    /\ Cardinality(VoteRows(d, sid)) = Len(CATEGORIES)

\* The ID after trimming and upper-casing
Normalized(sid) == Upper(Strip(sid))

\* The candidates rows of a (name, category) pair
PairRows(d, name, cat) ==
    {r \in d.candidates : r.name = name /\ r.category = cat}

\* C1: of the submit_votes calls for one student ID that interleave, exactly
\* one is accepted: a call is accepted only while the student is not yet
\* marked as voted, and its acceptance leaves exactly one set of vote rows
\* (one per category) for that student.
C1_OneAcceptedPerRace ==
    [][\A s \in Sessions :
          (pc[s] = "sv_commit" /\ pc'[s] = "idle" /\ result'[s] = "submit_ok")
              => /\ ~HasVoted(db, call[s].sid)
                 /\ OneBallot(db', call[s].sid)]_vars

\* C2: two entered IDs that normalize (trim, upper-case) to the same student
\* ID never both have a ballot persisted.
C2_OneBallotPerStudent ==
    \A a, b \in StudentIds(db) :
        (/\ Normalized(a) = Normalized(b)
         /\ HasVoted(db, a) /\ VoteRows(db, a) # {}
         /\ HasVoted(db, b) /\ VoteRows(db, b) # {})
            => a = b

\* C3: for every student_id the votes table holds at most one row per
\* category, and exactly one row for each of the four categories once the
\* student's has_voted is true.
C3_OneRowPerCategory ==
    \A sid \in StudentIds(db) :
        /\ \A c \in CategorySet : Cardinality(CategoryRows(db, sid, c)) <= 1
        /\ HasVoted(db, sid) => OneBallot(db, sid)

\* C4: submit_votes is all-or-nothing: in every committed state a student
\* is marked has_voted exactly when vote rows of that student are persisted,
\* and the submission that marked the student has one row of its own (its
\* timestamp) in every category.
C4_AllOrNothing ==
    \A sid \in StudentIds(db) :
        /\ HasVoted(db, sid) <=> VoteRows(db, sid) # {}
        /\ HasVoted(db, sid) =>
              \A c \in CategorySet :
                  Cardinality({v \in CategoryRows(db, sid, c) :
                      Some(v.voted_at) = db.students[sid].vote_timestamp}) = 1

\* C4's case: a submission is part-way through its inserts (its rows are in
\* the open transaction only) while another student's ballot is committed.
C4_Witness ==
    \E s \in Sessions :
        /\ pc[s] = "sv_insert"
        /\ call[s].i > 1
        /\ VoteRows(txdb, call[s].sid) # {}
        /\ VoteRows(db, call[s].sid) = {}
        /\ \E sid \in StudentIds(db) : HasVoted(db, sid) /\ OneBallot(db, sid)

C6_SecondCallRejected ==
    [][\A s \in Sessions :
          /\ (InReview(s) /\ HasVoted(db, student_id[s]))
                 => pc'[s] # "sv_insert"
          /\ (result'[s] = "submit_already_voted" /\ result'[s] # result[s])
                 => /\ HasVoted(db, student_id[s])
                    /\ db' = db
                    /\ txdb' = txdb
                    /\ HasVoted(db', student_id[s])
                    /\ OneBallot(db', student_id[s])]_vars

\* C6's case: one session's call was accepted, and the next call for the
\* same student ID, from the other session, was rejected as already voted.
C6_Witness ==
    \E s, t \in Sessions :
        /\ s # t
        /\ result[s] = "submit_ok"
        /\ result[t] = "submit_already_voted"
        /\ student_id[s] = student_id[t]
        /\ HasVoted(db, student_id[t])
        /\ OneBallot(db, student_id[t])

\* C7: has_voted is monotonic: a student marked as voted stays marked in the
\* next state unless that step is the commit of a reset_election.
C7_HasVotedMonotonic ==
    [][\A sid \in StudentIds(db) :
          HasVoted(db, sid)
              => \/ HasVoted(db', sid)
                 \/ \E s \in Sessions :
                        pc[s] = "re_commit" /\ pc'[s] = "re_log"]_vars

\* C7's case: a student is marked as voted and an operation other than the
\* reset (publish_results) has committed after that vote.
C7_Witness ==
    \E sid \in StudentIds(db), r \in db.control :
        /\ HasVoted(db, sid)
        /\ r.published = 1
        /\ \E a, b \in 1..MaxClock :
              /\ db.students[sid].vote_timestamp = Some(a)
              /\ r.published_at = Some(b)
              /\ a < b

\* The statements a delete_candidate call can be at
DeletePcs == {"dc_count", "dc_delete", "dc_commit", "dc_log"}

\* The step is a return of the delete_candidate call of s with one of its
\* three answers (not a storage error, not the server dying)
DeleteReturns(s) ==
    /\ pc[s] \in DeletePcs
    /\ pc'[s] = "idle"
    /\ result'[s] \in {"delete_has_votes", "delete_not_found", "delete_ok"}

\* C8: delete_candidate never removes a candidate that has a recorded vote,
\* however its count check and its delete interleave with a submit_votes:
\* when the delete commits, no vote for that (name, category) is recorded.
C8_NeverDeletesVoted ==
    [][\A s \in Sessions :
          (pc[s] = "dc_commit" /\ pc'[s] = "dc_log")
              => VoteCount(db, call[s].name, call[s].category) = 0]_vars

UniqueCandidates(d) ==
    \A r, q \in d.candidates :
        (r.name = q.name /\ r.category = q.category) => r = q

\* C10: the candidates table never holds two rows with the same
\* (name, category), also when the add_candidate calls of two admin sessions
\* interleave: an add that is answered "already exists" adds nothing, and an
\* add inserts its row only when the pair is not in the table, whatever the
\* categories the name is in.
C10_UniquePerCategory ==
    /\ [](UniqueCandidates(db) /\ UniqueCandidates(txdb))
    /\ [][\A s \in Sessions :
             /\ (result'[s] = "add_exists" /\ result'[s] # result[s])
                   => db' = db /\ txdb' = txdb
             /\ (pc[s] = "idle" /\ pc'[s] = "ac_commit")
                   => /\ PairRows(db, call'[s].name, call'[s].category) = {}
                      /\ Cardinality(PairRows(txdb', call'[s].name,
                                              call'[s].category)) = 1]_vars

\* C10's case: one admin's add of a name that other categories hold was
\* accepted, and the other admin's add was answered "already exists".
C10_Witness ==
    \E s, t \in Sessions :
        /\ pc[s] = "idle" /\ result[s] = "add_ok"
        /\ pc[t] = "idle" /\ result[t] = "add_exists"
        /\ \E r, q \in db.candidates :
              /\ r.id > Len(CATEGORIES)
              /\ q.name = r.name
              /\ q.category # r.category

\* The step is the commit of the reset_election of some session
ResetCommits ==
    \E s \in Sessions : pc[s] = "re_commit" /\ pc'[s] = "re_log"

ResetPcs == {"re_students", "re_candidates", "re_control", "re_commit", "re_log"}

\* C12: when a reset_election that ran without interference completes, the
\* students, candidates and votes tables are empty, get_vote_counts returns
\* nothing, get_publish_status reports unpublished with null timestamp and
\* admin, and the admin log of before the reset is still there, unchanged, in
\* front of the reset's own entry; no step of the reset changes an entry
\* of the log.
C12_ResetClearsAllButLog ==
    [][\A s \in Sessions :
          /\ (pc[s] = "re_log" /\ pc'[s] = "idle" /\ result'[s] = "reset_ok")
                => /\ DOMAIN db'.students = {}
                   /\ db'.candidates = {}
                   /\ db'.votes = {}
                   /\ get_vote_counts(db') = {}
                   /\ get_publish_status(db') =
                          [published |-> FALSE, published_at |-> NULL,
                           publish_admin |-> NULL]
                   /\ Len(db'.admin_logs) = Len(db.admin_logs) + 1
                   /\ db'.admin_logs[Len(db'.admin_logs)].action
                          = "RESET_ELECTION"
          /\ (pc[s] \in ResetPcs \/ pc'[s] \in ResetPcs)
                => /\ Len(db'.admin_logs) >= Len(db.admin_logs)
                   /\ SubSeq(db'.admin_logs, 1, Len(db.admin_logs))
                          = db.admin_logs
                   /\ pc[s] # "re_log" => db'.admin_logs = db.admin_logs]_vars

\* C12's case: a reset has completed on an election that had ballots and
\* published results; the log still holds the entries of the set-up and of
\* the publication in front of the reset's.
C12_Witness ==
    \E s \in Sessions :
        /\ result[s] = "reset_ok"
        /\ db.vote_seq > 0
        /\ db.votes = {}
        /\ db.candidates = {}
        /\ DOMAIN db.students = {}
        /\ ~get_publish_status(db).published
        /\ Len(db.admin_logs) = Len(SetUp.admin_logs) + 2
        /\ SubSeq(db.admin_logs, 1, Len(SetUp.admin_logs)) = SetUp.admin_logs
        /\ db.admin_logs[Len(SetUp.admin_logs) + 1].action = "PUBLISH_RESULTS"
        /\ db.admin_logs[Len(SetUp.admin_logs) + 2].action = "RESET_ELECTION"

\* The sequence a is the beginning of the sequence b
IsPrefix(a, b) == Len(a) <= Len(b) /\ SubSeq(b, 1, Len(a)) = a

\* C13: the admin log is append-only: across every step of every operation
\* the committed log of the earlier state is a prefix of the log of the later
\* state, and so is the log an open transaction sees.
C13_LogAppendOnly ==
    [][/\ IsPrefix(db.admin_logs, db'.admin_logs)
       /\ IsPrefix(db.admin_logs, txdb'.admin_logs)]_vars

\* C13's case: the log holds the entries of the set-up, after them the
\* entry of a reset, and after that the entry of a later operation.
C13_Witness ==
    /\ IsPrefix(SetUp.admin_logs, db.admin_logs)
    /\ Len(db.admin_logs) = Len(SetUp.admin_logs) + 2
    /\ db.admin_logs[Len(SetUp.admin_logs) + 1].action = "RESET_ELECTION"
    /\ db.admin_logs[Len(SetUp.admin_logs) + 2].action = "ADD_CANDIDATE"

\* C14: every reset is logged: a reset_election whose deletion has committed
\* (the session is at its log write) goes on only by appending its
\* RESET_ELECTION entry to the admin log.
C14_ResetIsLogged ==
    [][\A s \in Sessions :
          (pc[s] = "re_log" /\ pc'[s] # "re_log")
              => /\ Len(db'.admin_logs) = Len(db.admin_logs) + 1
                 /\ db'.admin_logs[Len(db'.admin_logs)].action
                        = "RESET_ELECTION"]_vars

\* The names in the list
Range(f) == {f[k] : k \in DOMAIN f}

\* The candidates that have votes in cat
VotedCandidates(d, cat) == {v.candidate : v \in {w \in d.votes : w.category = cat}}

\* The highest vote count of a candidate in cat
MaxVotesIn(d, cat) ==
    CHOOSE m \in 0..Cardinality(d.votes) :
        /\ \A name \in VotedCandidates(d, cat) : VoteCount(d, name, cat) <= m
        /\ \E name \in VotedCandidates(d, cat) : VoteCount(d, name, cat) = m

\* The page of s shows winners() as called on the tables as they are
ShowsWinners(s) ==
    /\ call[s].page = "Publish Results"
    /\ (get_publish_status(db).published \/ call[s].counts # << >>)

\* C15: whatever the votes table holds, winners() returns for every category
\* that has votes exactly the candidates whose vote count is the highest of
\* the category, each once, together with that count, and returns nothing
\* for a category that has no votes; candidates tied at the top are all
\* returned.
C15_WinnersAreAllAtMax ==
    \A s \in Sessions : ShowsWinners(s) =>
        LET w == call[s].winners_data
        IN  \A cat \in CategorySet :
                IF VotedCandidates(db, cat) = {}
                THEN cat \notin DOMAIN w.result
                     /\ cat \notin DOMAIN w.winner_votes
                ELSE /\ cat \in DOMAIN w.result
                     /\ cat \in DOMAIN w.winner_votes
                     /\ Range(w.result[cat])
                            = {name \in VotedCandidates(db, cat) :
                                 VoteCount(db, name, cat) = MaxVotesIn(db, cat)}
                     /\ Len(w.result[cat]) = Cardinality(Range(w.result[cat]))
                     /\ w.winner_votes[cat] = MaxVotesIn(db, cat)

\* winners() was called where a category has A = 3, B = 3, C = 1, and
\* returned A and B with 3
C15_Witness ==
    \E s \in Sessions, cat \in CategorySet :
        /\ ShowsWinners(s)
        /\ VoteCount(db, <<"A">>, cat) = 3
        /\ VoteCount(db, <<"B">>, cat) = 3
        /\ VoteCount(db, <<"C">>, cat) = 1
        /\ Range(call[s].winners_data.result[cat]) = {<<"A">>, <<"B">>}
        /\ call[s].winners_data.winner_votes[cat] = 3

\* The page of s holds the rows get_vote_counts() fetched from the tables
\* as they are
ShowsCounts(s) ==
    \/ call[s].page = "View Votes"
    \/ call[s].page = "Publish Results" /\ ~get_publish_status(db).published

\* C16: get_vote_counts returns, for every category, one row for each
\* candidate of the category in the candidates table, with the candidate's
\* vote count (0 for a candidate nobody voted for), and the rows of a
\* category come in non-increasing order of count.
C16_CountsCoverCandidates ==
    \A s \in Sessions : ShowsCounts(s) =>
        LET rows == call[s].counts
        IN  /\ \A cat \in CategorySet :
                {<<rows[k].candidate, rows[k].votes>> :
                    k \in {j \in DOMAIN rows : rows[j].category = cat}}
                  = {<<r.name, VoteCount(db, r.name, cat)>> :
                        r \in {c \in db.candidates : c.category = cat}}
            /\ \A j, k \in DOMAIN rows :
                (j < k /\ rows[j].category = rows[k].category)
                    => rows[j].votes >= rows[k].votes

\* The login form of s has checked the format of the typed student ID
FormatChecked(s) ==
    result[s] \in {"Invalid Student ID format", "exception",
                   "You have already voted", "verified"}

\* The string is AIE24 followed by exactly three digits that read as a
\* number from 201 to 261
WellFormed(str) ==
    /\ Len(str) = 8
    /\ SubSeq(str, 1, 5) = <<"A", "I", "E", "2", "4">>
    /\ \A k \in 6..8 : str[k] \in Digits
    /\ 201 <= ToInt(SubSeq(str, 6, 8))
    /\ ToInt(SubSeq(str, 6, 8)) <= 261

\* C17: valid_student_id accepts a string exactly when the string, trimmed
\* and upper-cased, is AIE24 followed by exactly three digits whose value is
\* from 201 to 261; a string with more, or fewer, characters between the
\* prefix and the last three digits is rejected.
C17_AcceptsExactlyWellFormed ==
    \A s \in Sessions : FormatChecked(s) =>
        ((result[s] # "Invalid Student ID format")
            <=> WellFormed(Upper(Strip(call[s].sid))))

\* get_publish_status on d reports a publication with its time and its admin
ReportsPublication(d) ==
    /\ get_publish_status(d).published
    /\ get_publish_status(d).published_at # NULL
    /\ get_publish_status(d).publish_admin # NULL

\* C18: once publish_results has committed, get_publish_status reports
\* published = true with a published_at and a publish_admin that are not
\* null; and in every reachable state in which published is true, both
\* published_at and publish_admin are not null.
C18_PublishedHasTimeAndAdmin ==
    /\ [](get_publish_status(db).published => ReportsPublication(db))
    /\ [][\A s \in Sessions :
             (pc[s] = "pr_commit" /\ pc'[s] = "pr_log")
                 => ReportsPublication(db')]_vars

\* publish_results has returned and the status reports the publication
C18_Witness ==
    \E s \in Sessions :
        /\ result[s] = "publish_ok"
        /\ pc[s] = "idle"
        /\ ReportsPublication(db)

\* C19: from initialization on, the control table holds exactly one row,
\* the row with id = 1, in every reachable state, however init_db,
\* publish_results and reset_election follow each other and interleave.
C19_OneControlRow ==
    /\ Cardinality(db.control) = 1
    /\ \A r \in db.control : r.id = 1

\* The results were published and the election was reset after that: the row
\* is still there
C19_Witness ==
    /\ \E k \in DOMAIN db.admin_logs : db.admin_logs[k].action = "PUBLISH_RESULTS"
    /\ \E s \in Sessions : result[s] = "reset_ok" /\ pc[s] = "idle"
    /\ Cardinality(db.control) = 1

\* C20: a students row is created by a vote submission that succeeds and by
\* nothing else, and never before that: every row of the students table has
\* has_voted = 1 and a vote_timestamp that is not null, and a step that puts
\* a new student into the table is the commit of a submit_votes call for
\* that student, which returns success; the login, a submission that fails
\* and the admin's operations create no row.
C20_RowsOnlyFromVotes ==
    /\ [](\A sid \in DOMAIN db.students :
             /\ db.students[sid].has_voted = 1
             /\ db.students[sid].vote_timestamp # NULL)
    /\ [][\A sid \in DOMAIN db'.students \ DOMAIN db.students :
             \E s \in Sessions :
                 /\ pc[s] = "sv_commit"
                 /\ call[s].sid = sid
                 /\ pc'[s] = "idle"
                 /\ result'[s] = "submit_ok"]_vars

\* A student has a row, while the submission of another student, who is
\* logged in, has failed and left no row
C20_Witness ==
    /\ DOMAIN db.students # {}
    /\ \E s \in Sessions :
        /\ result[s] = "submit_error"
        /\ verified[s]
        /\ student_id[s] \notin DOMAIN db.students

\* C21: a student's vote_timestamp is set once: from the successful
\* submit_votes that first sets it, no step changes it (no further
\* submit_votes for the student either, whether it runs after the first or
\* alongside it) for as long as the row is there, that is until
\* reset_election deletes it.
C21_TimestampSetOnce ==
    [][\A sid \in DOMAIN db.students \cap DOMAIN db'.students :
          db'.students[sid].vote_timestamp = db.students[sid].vote_timestamp]_vars

\* C22: votes are append-only: a committed vote row stays in the votes table
\* as it is (its student_id, category and candidate unchanged) at every
\* step, except the commit of reset_election, which removes all the rows; no
\* other operation updates or deletes a vote row.
C22_VotesAppendOnly ==
    [][\/ db.votes \subseteq db'.votes
       \/ ResetCommits /\ db'.votes = {}]_vars

\* The committed vote rows are still there after publish_results has run
C22_Witness ==
    /\ db.votes # {}
    /\ \E s \in Sessions : result[s] = "publish_ok" /\ pc[s] = "idle"
    /\ \E k \in DOMAIN db.admin_logs :
          db.admin_logs[k].action = "PUBLISH_RESULTS"

\* The statements of reset_election that follow its first DELETE and come
\* before its commit has happened
ResetWritePcs == {"re_students", "re_candidates", "re_control", "re_commit"}

\* The tables as a reset leaves them
FullyReset(d) ==
    /\ d.votes = {}
    /\ DOMAIN d.students = {}
    /\ d.candidates = {}
    /\ get_publish_status(d) =
           [published |-> FALSE, published_at |-> NULL, publish_admin |-> NULL]

\* C23: the writes of reset_election are one transaction.  While a reset is
\* between its first DELETE and its commit every other session reads the
\* committed tables, which no step changes but the reset's commit; that
\* commit leaves votes, students and candidates empty and the results
\* unpublished all at once; and a reset that fails, or a server that dies,
\* before the commit leaves the committed tables as they were.
C23_ResetIsOneTransaction ==
    /\ [](\A s \in Sessions : pc[s] \in ResetWritePcs =>
             \A t \in Sessions \ {s} : View(t) = db)
    /\ [][\A s \in Sessions :
             /\ pc'[s] = "re_students" => db' = db
             /\ pc[s] \in ResetWritePcs =>
                   \/ db' = db
                   \/ /\ pc[s] = "re_commit"
                      /\ pc'[s] = "re_log"
                      /\ FullyReset(db')]_vars

\* A reset has failed after its DELETEs, and the ballots, the students and
\* the candidates are all still there
C23_Witness ==
    \E s \in Sessions :
        /\ result[s] = "reset_raised"
        /\ db.votes # {}
        /\ DOMAIN db.students # {}
        /\ db.candidates # {}
        /\ Len(db.admin_logs) = Len(SetUp.admin_logs)

\* What an operation leaves when an exception leaves it
RaisedResults == {"submit_raised", "add_raised", "publish_raised", "reset_raised"}

\* C24: a core operation (submit_votes, its first read of has_voted
\* included, add_candidate, delete_candidate, publish_results,
\* reset_election) during which the store fails ends by returning a failure
\* with a reason to its caller: no operation ever ends by raising.
C24_FailuresAreReturned ==
    \A s \in Sessions : result[s] \notin RaisedResults

\* C25: in every reachable state the (candidate, category) of every vote row
\* is a row of the candidates table: however a student's selection and
\* submit_votes interleave with delete_candidate or reset_election, no vote
\* is persisted for a candidate that is no longer there.
C25_VotesNameCandidates ==
    \A v \in db.votes :
        \E r \in db.candidates :
            r.name = v.candidate /\ r.category = v.category

\* The step is a click of s on "Confirm & Submit": submit_votes is called
\* with student_id[s] and selections[s], and either goes on to its INSERTs or
\* returns at once (its read failed, or the student has voted)
SubmitIssued(s) ==
    /\ pc[s] = "idle"
    /\ \/ pc'[s] = "sv_insert"
       \/ /\ pc'[s] = "idle"
          /\ result'[s] \in {"submit_raised", "submit_already_voted"}
          /\ result'[s] # result[s]

\* C26: every submit_votes call the voting wizard issues comes from a session
\* that is verified and reviewing its votes, and its selections hold exactly
\* one entry for each of the four categories, whatever logins, selections,
\* reviews, edits, returns to the login and changes of page came before.
C26_SubmitsFullBallots ==
    [][\A s \in Sessions :
          SubmitIssued(s)
              => /\ verified[s]
                 /\ reviewing_votes[s]
                 /\ DOMAIN selections[s] = CategorySet
                 /\ Len(Items(selections[s])) = 4]_vars

\* A submission with a full ballot is running in a session that has been to
\* the admin panel and back: it is logged in there as admin
C26_Witness ==
    \E s \in Sessions :
        /\ pc[s] = "sv_insert"
        /\ DOMAIN call[s].sel = CategorySet
        /\ admin_authenticated[s]

\* The PUBLISH_RESULTS entries of the admin log
PublishEntries(d) ==
    {k \in DOMAIN d.admin_logs : d.admin_logs[k].action = "PUBLISH_RESULTS"}

\* C27: publishing twice is harmless for the flag but is not a no-op: when a
\* publish_results call commits on results that are already published,
\* published is still 1, published_at and publish_admin are the values of
\* that call (published_at changes), and when the call goes on to return it
\* has appended one more PUBLISH_RESULTS entry to the log.
C27_RepublishOverwrites ==
    [][\A s \in Sessions :
          /\ (pc[s] = "pr_commit" /\ pc'[s] = "pr_log" /\ results_published(db))
                => /\ get_publish_status(db') =
                          [published |-> TRUE,
                           published_at |-> Some(call[s].ts),
                           publish_admin |-> Some("Admin")]
                   /\ get_publish_status(db').published_at
                          # get_publish_status(db).published_at
          /\ (pc[s] = "pr_log" /\ pc'[s] = "idle" /\ result'[s] = "publish_ok")
                => /\ Len(db'.admin_logs) = Len(db.admin_logs) + 1
                   /\ PublishEntries(db') =
                          PublishEntries(db) \cup {Len(db'.admin_logs)}]_vars

\* Two publish_results calls have returned: the results are published, the
\* log has two PUBLISH_RESULTS entries, and published_at is not the time of
\* the first entry
C27_Witness ==
    /\ results_published(db)
    /\ Cardinality(PublishEntries(db)) = 2
    /\ \A s \in Sessions : pc[s] = "idle" /\ result[s] = "publish_ok"
    /\ \E k \in PublishEntries(db) :
          /\ \A j \in PublishEntries(db) : k <= j
          /\ db.admin_logs[k].details
                # TimestampDetails(CHOOSE t \in 1..MaxClock + 1 :
                      get_publish_status(db).published_at = Some(t))

\* C28: publishing the results does not close the voting: while published is
\* 1, a submit_votes call for a student who has not voted passes the guard
\* (unless its read fails), and it ends either with a storage failure (or
\* the server dying) that leaves the tables as they were, or with its commit:
\* then it returns success, the student's vote rows are added to the votes
\* table and the results stay published; so the counts and the winners can
\* change after the publication.
C28_VotingStaysOpen ==
    [][\A s \in Sessions :
          /\ (/\ SubmitIssued(s)
              /\ results_published(db)
              /\ ~HasVoted(db, student_id[s])
              /\ result'[s] # "submit_raised")
                => pc'[s] = "sv_insert"
          /\ (pc[s] = "sv_commit" /\ pc'[s] = "idle" /\ results_published(db))
                => \/ /\ result'[s] \in {"submit_error", "none"}
                      /\ db' = db
                   \/ /\ result'[s] = "submit_ok"
                      /\ db.votes \subseteq db'.votes
                      /\ \A c \in CategorySet :
                            \E v \in db'.votes \ db.votes :
                               /\ v.student_id = call[s].sid
                               /\ v.category = c
                               /\ v.candidate = call[s].sel[c]
                      /\ results_published(db')]_vars

\* A ballot was committed after the publication: the published results
\* stand, and the candidate of the first category has two votes where the
\* publication found one
C28_Witness ==
    /\ results_published(db)
    /\ \E v \in db.votes :
          get_publish_status(db).published_at \in {Some(t) : t \in 1..(v.voted_at - 1)}
    /\ \E s \in Sessions : result[s] = "submit_ok"
    /\ VoteCount(db, <<"A">>, CATEGORIES[1]) = 2

\* C29: in every reachable state get_voting_stats reports voted <=
\* total_eligible, and so pending >= 0 and turnout_percentage <= 100, when
\* every student whose ID valid_student_id accepts (AIE24201 to AIE24261)
\* may vote and total_eligible is the constant 60.
C29_StatsWithinEligible ==
    \A s \in Sessions : call[s].page = "Dashboard" =>
        /\ call[s].stats.voted <= call[s].stats.total_eligible
        /\ call[s].stats.pending >= 0
        /\ call[s].stats.turnout_percentage <= 100

====
